---- MODULE Spec2Model ----
(***************************************************************************)
(* A model of conway.py: the generalized Conway leading-number algebra     *)
(* (payoff_to_B_bets_if_A_occurs_first, oddsAB, probAB,                    *)
(* expected_waiting_time), the Monte-Carlo simulator                       *)
(* (simulate_winrates_penney_game) and the pattern enumerator              *)
(* (all_patterns).                                                         *)
(*                                                                         *)
(* Representation.                                                         *)
(*  - A Python str is a sequence of one-character strings:                 *)
(*    'THH' is <<"T","H","H">>.                                            *)
(*  - A dictionary is the sequence of its items in iteration (insertion)   *)
(*    order, with pairwise distinct keys.  A key is a record               *)
(*    [isStr, s]: isStr tells whether type(key) is str and s is str(key).  *)
(*  - A number is an exact rational <<n, d>> in lowest terms with d > 0.   *)
(*    The probabilities of the model are multiples of 1/ProbDen, for which *)
(*    the float arithmetic of the program has no rounding that could       *)
(*    change a comparison made below.                                      *)
(*  - A call either returns a value, [ok |-> TRUE, val |-> v], or raises,  *)
(*    [ok |-> FALSE, err |-> kind].                                        *)
(***************************************************************************)
EXTENDS Integers, Sequences, FiniteSets, TLC

VARIABLES A, B, alphabet, op, result,
          N, i, window, n_wins, n_flips, pc,
          list_pattern, patterns, stack, call

vars == <<A, B, alphabet, op, result,
          N, i, window, n_wins, n_flips, pc,
          list_pattern, patterns, stack, call>>

inputVars == <<A, B, alphabet>>
pureVars == <<op, result>>
simVars == <<N, i, window, n_wins, n_flips, pc>>
enumVars == <<list_pattern, patterns, stack, call>>

---------------------------------------------------------------------------
(* Bounds of the model.                                                    *)

\* longest pattern given to the closed-form functions
MaxLen == 3
\* probabilities are multiples of 1/ProbDen
ProbDen == 4
\* longest pattern given to the simulator
SimMaxLen == 2
\* largest number_of_sequences given to the simulator
MaxTrials == 2
\* the simulator's draws are followed up to this total
MaxFlips == 4
\* longest pattern length given to all_patterns
MaxEnumLen == 3
\* calls of all_patterns followed after one reset of the two lists
MaxCalls == 2

---------------------------------------------------------------------------
(* Exact rational arithmetic.                                              *)

Abs(x) == IF x < 0 THEN -x ELSE x

RECURSIVE GCD(_, _)
GCD(x, y) == IF y = 0 THEN x ELSE GCD(y, x % y)

RNorm(n, d) ==
    LET g == GCD(Abs(n), Abs(d))
        s == IF d < 0 THEN -1 ELSE 1
    IN  <<s * (n \div g), s * (d \div g)>>

RInt(k) == <<k, 1>>
RAdd(x, y) == RNorm(x[1] * y[2] + y[1] * x[2], x[2] * y[2])
RSub(x, y) == RNorm(x[1] * y[2] - y[1] * x[2], x[2] * y[2])
RMul(x, y) == RNorm(x[1] * y[1], x[2] * y[2])
\* x / y for y # 0
RDiv(x, y) == RNorm(x[1] * y[2], x[2] * y[1])
RIsZero(x) == x[1] = 0
RGeq0(x) == x[1] >= 0
RLeq(x, y) == x[1] * y[2] <= y[1] * x[2]

Ok(v) == [ok |-> TRUE, val |-> v]
Raise(kind) == [ok |-> FALSE, err |-> kind]

---------------------------------------------------------------------------
(* Python str and dict operations used by the program.                     *)

\* s[from:] for 0 <= from (0-based)
SliceFrom(s, from) ==
    IF from >= Len(s) THEN <<>> ELSE SubSeq(s, from + 1, Len(s))

\* s[0:n] for n >= 0; a slice past the end is clipped
SliceTo(s, n) == IF n >= Len(s) THEN s ELSE SubSeq(s, 1, n)

\* s.find(t): the lowest 0-based index at which t occurs in s, or -1
Find(s, t) ==
    LET hits == {k \in 0..(Len(s) - Len(t)) :
                    SubSeq(s, k + 1, k + Len(t)) = t}
    IN  IF hits = {} THEN -1
        ELSE CHOOSE k \in hits : \A m \in hits : k <= m

\* s + t
Concat(s, t) == s \o t

StrKey(s) == [isStr |-> TRUE, s |-> s]
\* a key that is not a str, such as the integer 1
NonStrKey(s) == [isStr |-> FALSE, s |-> s]

\* alphabet.keys(), alphabet.values()
Keys(alph) == [k \in 1..Len(alph) |-> alph[k].key]
Values(alph) == [k \in 1..Len(alph) |-> alph[k].p]

\* char in alphabet.keys(), for a one-character str char
InKeys(alph, char) ==
    \E k \in 1..Len(alph) : alph[k].key = StrKey(<<char>>)

\* alphabet[char], for a char that is a key
Lookup(alph, char) ==
    alph[CHOOSE k \in 1..Len(alph) : alph[k].key = StrKey(<<char>>)].p

RECURSIVE SumFrom(_, _)
SumFrom(vals, k) ==
    IF k > Len(vals) THEN RInt(0) ELSE RAdd(vals[k], SumFrom(vals, k + 1))

\* sum(alphabet.values())
SumValues(alph) == SumFrom(Values(alph), 1)

\* abs(x - 1) > 1e-10 for a rational x = n/d:  |n - d| * 10^10 > d,
\* computed as |n - d| > (d div 10^5) div 10^5 to stay in range
OffOneBeyondTolerance(x) ==
    Abs(x[1] - x[2]) > ((x[2] \div 100000) \div 100000)

---------------------------------------------------------------------------
(* payoff_to_B_bets_if_A_occurs_first (leadingNumber).                     *)

\* The checks that precede the computation, in the order of the code.  The
\* code raises Exception with a message; the kinds name the messages:
\*   "Alphabet is not a valid probability distribution"   InvalidDistribution
\*   "only strings please", "Strings must be length 1"    InvalidAlphabetKey
\*   "All chacters must appear in the Alphabet"           AlphabetCoverage
\*   "one string cannot be a strict substring of another" DegenerateSubstring
Validate(a, b, alph) ==
    IF OffOneBeyondTolerance(SumValues(alph)) THEN "InvalidDistribution"
    ELSE IF \E k \in 1..Len(alph) : ~alph[k].key.isStr THEN "InvalidAlphabetKey"
    ELSE IF \E k \in 1..Len(alph) : Len(alph[k].key.s) > 1 THEN "InvalidAlphabetKey"
    ELSE IF \E k \in 1..Len(Concat(a, b)) : ~InKeys(alph, Concat(a, b)[k])
         THEN "AlphabetCoverage"
    ELSE IF \/ (Len(b) < Len(a) /\ Find(a, b) > -1)
            \/ (Len(a) < Len(b) /\ Find(b, a) > -1)
         THEN "DegenerateSubstring"
    ELSE "ok"

\* the inner loop, lines 81-84: wealth multiplied left to right by
\* 1/alphabet[symbol]; a zero probability makes the division raise
RECURSIVE WealthLoop(_, _, _, _)
WealthLoop(trailing, alph, k, wealth) ==
    IF k > Len(trailing) THEN Ok(wealth)
    ELSE LET p == Lookup(alph, trailing[k])
         IN  IF RIsZero(p) THEN Raise("ZeroDivisionError")
             ELSE WealthLoop(trailing, alph, k + 1,
                             RMul(wealth, RDiv(RInt(1), p)))

\* the outer loop stopping one offset early, as range(len(A) - 1) would
RECURSIVE PayoffLoopShort(_, _, _, _, _)
PayoffLoopShort(a, b, alph, j, AB) ==
    IF j >= Len(a) - 1 THEN Ok(AB)
    ELSE LET A_trailing == SliceFrom(a, j)
             B_leading == SliceTo(b, Len(A_trailing))
         IN  IF A_trailing = B_leading
             THEN LET w == WealthLoop(A_trailing, alph, 1, RInt(1))
                  IN  IF ~w.ok THEN w
                      ELSE PayoffLoopShort(a, b, alph, j + 1, RAdd(AB, w.val))
             ELSE PayoffLoopShort(a, b, alph, j + 1, AB)

\* the outer loop, lines 67-86, from offset j on with AB accumulated so far
RECURSIVE PayoffLoop(_, _, _, _, _)
PayoffLoop(a, b, alph, j, AB) ==
    IF j >= Len(a) THEN Ok(AB)
    ELSE LET A_trailing == SliceFrom(a, j)
             B_leading == SliceTo(b, Len(A_trailing))
         IN  IF A_trailing = B_leading
             THEN LET w == WealthLoop(A_trailing, alph, 1, RInt(1))
                  IN  IF ~w.ok THEN w
                      ELSE PayoffLoop(a, b, alph, j + 1, RAdd(AB, w.val))
             ELSE PayoffLoop(a, b, alph, j + 1, AB)

payoff_to_B_bets_if_A_occurs_first(a, b, alph) ==
    LET v == Validate(a, b, alph)
    IN  IF v # "ok" THEN Raise(v) ELSE PayoffLoop(a, b, alph, 0, RInt(0))

---------------------------------------------------------------------------
(* oddsAB, probAB, expected_waiting_time.                                  *)

\* the four leading numbers of the generic branch, evaluated in the order
\* AA, AB, BB, BA; the first that raises ends the call
FourPayoffs(a, b, alph) ==
    LET AA == payoff_to_B_bets_if_A_occurs_first(a, a, alph)
        AB == payoff_to_B_bets_if_A_occurs_first(a, b, alph)
        BB == payoff_to_B_bets_if_A_occurs_first(b, b, alph)
        BA == payoff_to_B_bets_if_A_occurs_first(b, a, alph)
    IN  IF ~AA.ok THEN AA
        ELSE IF ~AB.ok THEN AB
        ELSE IF ~BB.ok THEN BB
        ELSE IF ~BA.ok THEN BA
        ELSE Ok([AA |-> AA.val, AB |-> AB.val, BB |-> BB.val, BA |-> BA.val])

\* oddsAB with the two substring branches exchanged
oddsABSwapped(a, b, alph) ==
    IF a = b THEN Raise("SelfComparison")
    ELSE IF Len(b) < Len(a) /\ Find(a, b) > -1 THEN Ok(<<RInt(0), RInt(1)>>)
    ELSE IF Len(a) < Len(b) /\ Find(b, a) > -1 THEN Ok(<<RInt(1), RInt(0)>>)
    ELSE LET f == FourPayoffs(a, b, alph)
         IN  IF ~f.ok THEN f
             ELSE Ok(<<RSub(f.val.AA, f.val.AB), RSub(f.val.BB, f.val.BA)>>)

\* oddsAB with the generic branch's differences the other way round
oddsABNegated(a, b, alph) ==
    IF a = b THEN Raise("SelfComparison")
    ELSE IF Len(b) < Len(a) /\ Find(a, b) > -1 THEN Ok(<<RInt(1), RInt(0)>>)
    ELSE IF Len(a) < Len(b) /\ Find(b, a) > -1 THEN Ok(<<RInt(0), RInt(1)>>)
    ELSE LET f == FourPayoffs(a, b, alph)
         IN  IF ~f.ok THEN f
             ELSE Ok(<<RSub(f.val.AB, f.val.AA), RSub(f.val.BA, f.val.BB)>>)

\* oddsAB taking BA for AB in the chances against
oddsABMixed(a, b, alph) ==
    IF a = b THEN Raise("SelfComparison")
    ELSE IF Len(b) < Len(a) /\ Find(a, b) > -1 THEN Ok(<<RInt(1), RInt(0)>>)
    ELSE IF Len(a) < Len(b) /\ Find(b, a) > -1 THEN Ok(<<RInt(0), RInt(1)>>)
    ELSE LET f == FourPayoffs(a, b, alph)
         IN  IF ~f.ok THEN f
             ELSE Ok(<<RSub(f.val.AA, f.val.BA), RSub(f.val.BB, f.val.BA)>>)

\* "A==B; patterns cannot precede themselves" is SelfComparison
oddsAB(a, b, alph) ==
    IF a = b THEN Raise("SelfComparison")
    ELSE IF Len(b) < Len(a) /\ Find(a, b) > -1 THEN Ok(<<RInt(1), RInt(0)>>)
    ELSE IF Len(a) < Len(b) /\ Find(b, a) > -1 THEN Ok(<<RInt(0), RInt(1)>>)
    ELSE LET f == FourPayoffs(a, b, alph)
         IN  IF ~f.ok THEN f
             ELSE Ok(<<RSub(f.val.AA, f.val.AB), RSub(f.val.BB, f.val.BA)>>)

\* o[1]/(o[0]+o[1]); the division raises ZeroDivisionError on a zero divisor
probAB(a, b, alph) ==
    LET o == oddsAB(a, b, alph)
    IN  IF ~o.ok THEN o
        ELSE IF RIsZero(RAdd(o.val[1], o.val[2])) THEN Raise("ZeroDivisionError")
        ELSE Ok(RDiv(o.val[2], RAdd(o.val[1], o.val[2])))

expected_waiting_time(a, b, alph) ==
    IF a = b THEN payoff_to_B_bets_if_A_occurs_first(a, a, alph)
    ELSE IF Len(b) < Len(a) /\ Find(a, b) > -1
         THEN payoff_to_B_bets_if_A_occurs_first(b, b, alph)
    ELSE IF Len(a) < Len(b) /\ Find(b, a) > -1
         THEN payoff_to_B_bets_if_A_occurs_first(a, a, alph)
    ELSE LET f == FourPayoffs(a, b, alph)
         IN  IF ~f.ok THEN f
             ELSE LET den == RSub(RSub(RAdd(f.val.AA, f.val.BB), f.val.AB),
                                  f.val.BA)
                      num == RSub(RMul(f.val.AA, f.val.BB),
                                  RMul(f.val.AB, f.val.BA))
                  IN  IF RIsZero(den) THEN Raise("ZeroDivisionError")
                      ELSE Ok(RDiv(num, den))

---------------------------------------------------------------------------
(* Inputs.                                                                 *)

Chars == {"H", "T"}

\* every str over chars of length 0..n
Strings(chars, n) == UNION {[1..k -> chars] : k \in 0..n}

Patterns == Strings(Chars, MaxLen)

H == StrKey(<<"H">>)
T == StrKey(<<"T">>)

\* probabilities run from -1/ProbDen to ProbDen/ProbDen: the code
\* accepts a negative or zero value as long as the sum is 1
Weights == -1..ProbDen

Dict(keys, w) ==
    [k \in 1..Len(keys) |-> [key |-> keys[k], p |-> RNorm(w[k], ProbDen)]]

WeightSum(w) == SumFrom([k \in 1..Len(w) |-> RInt(w[k])], 1)[1]

\* a second key that is a symbol, the empty str, a two-character str, or
\* not a str
SecondKeys == {T, StrKey(<<>>), StrKey(<<"H", "T">>), NonStrKey(<<"1">>)}

\* dictionaries of one or two items whose values sum to 1 or miss it by
\* 1/ProbDen, and three-symbol dictionaries whose values sum to 1
Alphabets ==
    {Dict(<<H>>, w) : w \in {v \in [1..1 -> Weights] :
                                Abs(WeightSum(v) - ProbDen) <= 1}}
    \cup UNION {{Dict(<<H, k2>>, w) :
                    w \in {v \in [1..2 -> Weights] :
                              Abs(WeightSum(v) - ProbDen) <= 1}} :
                k2 \in SecondKeys}
    \cup {Dict(<<H, T, StrKey(<<"c">>)>>, w) :
             w \in {v \in [1..3 -> Weights] : WeightSum(v) = ProbDen}}

---------------------------------------------------------------------------
(* The closed-form functions: each call is one action.  The functions keep *)
(* no state, so a behaviour draws the arguments and makes one call.        *)

\* no call of all_patterns made yet; the module does not define the two
\* lists, the caller does
NoCall == [length |-> 0, fresh |-> FALSE, status |-> "none", calls |-> 0,
           defined |-> FALSE]

\* the simulator and the enumerator at rest
Idle ==
    /\ N = 0 /\ i = 0 /\ window = <<>> /\ n_wins = <<0, 0>> /\ n_flips = 0
    /\ pc = "idle"
    /\ list_pattern = <<>> /\ patterns = <<>> /\ stack = <<>>
    /\ call = NoCall

Init ==
    /\ A \in Patterns
    /\ B \in Patterns
    /\ alphabet \in Alphabets
    /\ op = "none"
    /\ result = Ok(RInt(0))
    /\ Idle

CallLeadingNumber ==
    /\ op = "none"
    /\ op' = "leadingNumber"
    /\ result' = payoff_to_B_bets_if_A_occurs_first(A, B, alphabet)
    /\ UNCHANGED <<inputVars, simVars, enumVars>>

CallOdds ==
    /\ op = "none"
    /\ op' = "odds"
    /\ result' = oddsAB(A, B, alphabet)
    /\ UNCHANGED <<inputVars, simVars, enumVars>>

CallProbability ==
    /\ op = "none"
    /\ op' = "probability"
    /\ result' = probAB(A, B, alphabet)
    /\ UNCHANGED <<inputVars, simVars, enumVars>>

CallExpectedWait ==
    /\ op = "none"
    /\ op' = "expectedWait"
    /\ result' = expected_waiting_time(A, B, alphabet)
    /\ UNCHANGED <<inputVars, simVars, enumVars>>

Next ==
    \/ CallLeadingNumber
    \/ CallOdds
    \/ CallProbability
    \/ CallExpectedWait

Spec == Init /\ [][Next]_vars

---------------------------------------------------------------------------
(* Notions of the specification used to state the properties.              *)

\* x occurs in y and is shorter
IsStrictSubstring(x, y) ==
    /\ Len(x) < Len(y)
    /\ \E k \in 0..(Len(y) - Len(x)) :
          \A m \in 1..Len(x) : y[k + m] = x[m]

\* a key that is a single-character symbol
IsSymbol(key) == key.isStr /\ Len(key.s) = 1

\* an alphabet of the data model: single-character symbols with
\* probabilities in (0, 1] that sum to 1 within the tolerance
ValidAlphabet(alph) ==
    /\ ~OffOneBeyondTolerance(SumValues(alph))
    /\ \A k \in 1..Len(alph) :
          /\ IsSymbol(alph[k].key)
          /\ alph[k].p[1] > 0
          /\ RLeq(alph[k].p, RInt(1))

\* every character of x is a symbol of the alphabet
Over(x, alph) == \A k \in 1..Len(x) : InKeys(alph, x[k])

\* neither pattern is the other or a strict substring of the other
Generic(a, b) ==
    a # b /\ ~IsStrictSubstring(a, b) /\ ~IsStrictSubstring(b, a)

\* the offsets k of a at which the suffix a[k:] equals the prefix of b of
\* the same length
MatchingOffsets(a, b) ==
    {k \in 0..(Len(a) - 1) :
        /\ Len(a) - k <= Len(b)
        /\ \A m \in 1..(Len(a) - k) : a[k + m] = b[m]}

\* the product of 1/probability over the symbols of a[k:]
RECURSIVE GrossReturn(_, _, _)
GrossReturn(a, k, alph) ==
    IF k >= Len(a) THEN RInt(1)
    ELSE RMul(RDiv(RInt(1), Lookup(alph, a[k + 1])), GrossReturn(a, k + 1, alph))

RECURSIVE SumOverOffsets(_, _, _)
SumOverOffsets(offsets, a, alph) ==
    IF offsets = {} THEN RInt(0)
    ELSE LET k == CHOOSE x \in offsets : TRUE
         IN  RAdd(GrossReturn(a, k, alph),
                  SumOverOffsets(offsets \ {k}, a, alph))

\* {'H': .5, 'T': .5}
FairCoin == <<[key |-> H, p |-> RNorm(1, 2)], [key |-> T, p |-> RNorm(1, 2)]>>

NoZeroProbability(alph) == \A k \in 1..Len(alph) : ~RIsZero(alph[k].p)

---------------------------------------------------------------------------
(* Properties of the closed-form functions.                                *)

\* C1: for inputs that pass validation (no probability being zero), the
\* leading number is the sum, over the offsets at which the suffix of A
\* equals the equally long prefix of B, of the product of the inverse
\* probabilities of the suffix's symbols; THH against HHH over two
\* equally likely symbols gives 6
C1_LeadingNumberIsOverlapSum ==
    (op = "leadingNumber" /\ Validate(A, B, alphabet) = "ok"
        /\ NoZeroProbability(alphabet))
    => /\ result.ok
       /\ result.val = SumOverOffsets(MatchingOffsets(A, B), A, alphabet)
       /\ (A = <<"T", "H", "H">> /\ B = <<"H", "H", "H">>
             /\ alphabet = FairCoin)
          => result.val = RInt(6)

C1_Witness ==
    /\ op = "leadingNumber"
    /\ A = <<"T", "H", "H">> /\ B = <<"H", "H", "H">>
    /\ alphabet = FairCoin
    /\ MatchingOffsets(A, B) = {1, 2}
    /\ result = Ok(RInt(6))

\* C2: leadingNumber fails with the error of the first violated check in
\* the order distribution, single-character keys, coverage, substring, and
\* returns a number only when all four pass
C2_ValidationOrder ==
    (op = "leadingNumber" /\ Len(A) > 0 /\ Len(B) > 0
        /\ \A k \in 1..Len(alphabet) : alphabet[k].p[1] > 0) =>
        IF OffOneBeyondTolerance(SumValues(alphabet))
        THEN result = Raise("InvalidDistribution")
        ELSE IF \E k \in 1..Len(alphabet) : ~IsSymbol(alphabet[k].key)
        THEN result = Raise("InvalidAlphabetKey")
        ELSE IF ~Over(A, alphabet) \/ ~Over(B, alphabet)
        THEN result = Raise("AlphabetCoverage")
        ELSE IF IsStrictSubstring(A, B) \/ IsStrictSubstring(B, A)
        THEN result = Raise("DegenerateSubstring")
        ELSE TRUE

\* C3: odds fails when A = B, is exactly (1, 0) when B is a strict
\* substring of A and (0, 1) when A is a strict substring of B, whatever
\* the alphabet, and otherwise is (AA - AB, BB - BA) of the four leading
\* numbers, failing when one of them fails
C3_OddsBranches ==
    op = "odds" =>
        IF A = B THEN result = Raise("SelfComparison")
        ELSE IF IsStrictSubstring(B, A) THEN result = Ok(<<RInt(1), RInt(0)>>)
        ELSE IF IsStrictSubstring(A, B) THEN result = Ok(<<RInt(0), RInt(1)>>)
        ELSE LET AA == payoff_to_B_bets_if_A_occurs_first(A, A, alphabet)
                 AB == payoff_to_B_bets_if_A_occurs_first(A, B, alphabet)
                 BB == payoff_to_B_bets_if_A_occurs_first(B, B, alphabet)
                 BA == payoff_to_B_bets_if_A_occurs_first(B, A, alphabet)
             IN  IF AA.ok /\ AB.ok /\ BB.ok /\ BA.ok
                 THEN result = Ok(<<RSub(AA.val, AB.val), RSub(BB.val, BA.val)>>)
                 ELSE ~result.ok

C3_Witness ==
    /\ op = "odds"
    /\ IsStrictSubstring(B, A)
    /\ Len(B) > 0
    /\ Validate(A, A, alphabet) = "InvalidDistribution"
    /\ result = Ok(<<RInt(1), RInt(0)>>)

\* C4: over a valid alphabet, for non-empty patterns A # B over it, neither
\* a strict substring of the other, both components of odds are
\* non-negative
C4_OddsNonNegative ==
    (op = "odds" /\ ValidAlphabet(alphabet) /\ Generic(A, B)
        /\ Len(A) > 0 /\ Len(B) > 0 /\ Over(A, alphabet) /\ Over(B, alphabet))
    => /\ result.ok
       /\ RGeq0(result.val[1])
       /\ RGeq0(result.val[2])

C4_Witness ==
    /\ op = "odds" /\ ValidAlphabet(alphabet) /\ Generic(A, B)
    /\ Len(alphabet) = 3 /\ alphabet[1].p # alphabet[2].p
    /\ Len(A) = MaxLen /\ Len(B) = 2
    /\ Over(A, alphabet) /\ Over(B, alphabet)
    /\ result.ok
    /\ ~RIsZero(payoff_to_B_bets_if_A_occurs_first(A, B, alphabet).val)

\* C5: over a valid alphabet, for a generic pair, odds(B, A) is
\* odds(A, B) with its components exchanged, both probabilities are
\* defined and they sum to 1
C5_SwapAndComplement ==
    (op = "probability" /\ ValidAlphabet(alphabet) /\ Generic(A, B)
        /\ Over(A, alphabet) /\ Over(B, alphabet))
    => LET o == oddsAB(A, B, alphabet)
           r == oddsAB(B, A, alphabet)
           q == probAB(B, A, alphabet)
       IN  /\ o.ok /\ r.ok
           /\ r.val = <<o.val[2], o.val[1]>>
           /\ RAdd(o.val[1], o.val[2])[1] > 0
           /\ result.ok /\ q.ok
           /\ RAdd(result.val, q.val) = RInt(1)

C5_Witness ==
    /\ op = "probability" /\ ValidAlphabet(alphabet) /\ Generic(A, B)
    /\ Over(A, alphabet) /\ Over(B, alphabet)
    /\ Len(A) # Len(B)
    /\ result.ok
    /\ result.val # RNorm(1, 2)
    /\ oddsAB(A, B, alphabet).val[1] # oddsAB(A, B, alphabet).val[2]

\* the generic branch reaches its division with AA + BB - AB - BA = 0
ZeroDenominator(a, b, alph) ==
    /\ Generic(a, b)
    /\ FourPayoffs(a, b, alph).ok
    /\ LET f == FourPayoffs(a, b, alph).val
       IN  RIsZero(RSub(RSub(RAdd(f.AA, f.BB), f.AB), f.BA))

\* C6: when the common denominator is zero, probability reports
\* UndefinedProbability and the generic branch of expectedWait reports
\* UndefinedWaitingTime, neither letting the division fault
C6_ZeroDenominatorReported ==
    ZeroDenominator(A, B, alphabet) =>
        /\ op = "probability" => result = Raise("UndefinedProbability")
        /\ op = "expectedWait" => result = Raise("UndefinedWaitingTime")

---------------------------------------------------------------------------
(* simulate_winrates_penney_game.                                          *)

Max(x, y) == IF x >= y THEN x ELSE y
Min(x, y) == IF x <= y THEN x ELSE y

\* the symbol the window is filled with before the first draw
Sentinel == "!"

\* window = ['!'] * max_length
InitialWindow(a, b) == [k \in 1..Max(Len(a), Len(b)) |-> <<Sentinel>>]

\* "".join(map(str, window)); an element of the window is the str of a key
RECURSIVE Join(_)
Join(w) == IF w = <<>> THEN <<>> ELSE Head(w) \o Join(Tail(w))

\* a test that looks at the last character only
MatchesLastOnly(ch_window, max_length, pattern) ==
    /\ Len(pattern) > 0
    /\ Len(ch_window) > 0
    /\ ch_window[Len(ch_window)] = pattern[Len(pattern)]

\* ch_window[max_length-len(pattern):] == pattern
Matches(ch_window, max_length, pattern) ==
    SliceFrom(ch_window, max_length - Len(pattern)) = pattern

\* the tests of lines 169-174 with B tested first
WinnerBFirst(ch_window, a, b) ==
    IF Matches(ch_window, Max(Len(a), Len(b)), b) THEN 2
    ELSE IF Matches(ch_window, Max(Len(a), Len(b)), a) THEN 1
    ELSE 0

\* the tests of lines 169-174: 1 when A is matched, 2 when A is not and B
\* is, 0 when neither is
Winner(ch_window, a, b) ==
    IF Matches(ch_window, Max(Len(a), Len(b)), a) THEN 1
    ELSE IF Matches(ch_window, Max(Len(a), Len(b)), b) THEN 2
    ELSE 0

\* np.random.choice(outcomes, 1, replace=True, p=probabilities) raises
\* ValueError for no outcomes, a negative probability or probabilities
\* that do not sum to 1 (numpy's tolerance is wider than 1e-10, which makes
\* no difference for multiples of 1/ProbDen)
ChoiceRaises(alph) ==
    \/ Len(alph) = 0
    \/ \E k \in 1..Len(alph) : alph[k].p[1] < 0
    \/ SumValues(alph) # RInt(1)

\* the outcomes a draw can give: the keys of positive probability
Drawable(alph) == {k \in 1..Len(alph) : alph[k].p[1] > 0}

SimChars == {"H", "T", Sentinel}
SimPatterns == Strings(SimChars, SimMaxLen)

\* the second key is a symbol, the sentinel, or a two-character str; the
\* values are a distribution, a distribution with a zero, or miss the sum
SimAlphabets ==
    {Dict(<<H, k2>>, w) :
        k2 \in {T, StrKey(<<Sentinel>>), StrKey(<<"H", "T">>)},
        w \in {<<1, ProbDen - 1>>, <<ProbDen, 0>>, <<1, ProbDen>>}}

SimInit ==
    /\ A \in SimPatterns
    /\ B \in SimPatterns
    /\ alphabet \in SimAlphabets
    /\ op = "none"
    /\ result = Ok(RInt(0))
    /\ Idle

\* lines 148-156
SimCall ==
    /\ pc = "idle"
    /\ \E n \in 0..MaxTrials : N' = n
    /\ n_wins' = <<0, 0>>
    /\ n_flips' = 0
    /\ i' = 0
    /\ pc' = "for"
    /\ op' = "simulate"
    /\ UNCHANGED <<inputVars, result, window, enumVars>>

\* lines 158-160: the next trial begins
SimBeginTrial ==
    /\ pc = "for"
    /\ i < N
    /\ window' = InitialWindow(A, B)
    /\ pc' = "while"
    /\ UNCHANGED <<inputVars, pureVars, N, i, n_wins, n_flips, enumVars>>

\* lines 164-165 raising: pop from an empty window, or the draw refused
SimDrawRaises ==
    /\ pc = "while"
    /\ \/ window = <<>> /\ result' = Raise("IndexError")
       \/ window # <<>> /\ ChoiceRaises(alphabet) /\ result' = Raise("ValueError")
    /\ window' = IF window = <<>> THEN window ELSE Tail(window)
    /\ pc' = "error"
    /\ UNCHANGED <<inputVars, op, N, i, n_wins, n_flips, enumVars>>

\* lines 164-174: one turn of the while loop, for one outcome of the draw
SimDraw ==
    /\ pc = "while"
    /\ window # <<>>
    /\ ~ChoiceRaises(alphabet)
    /\ n_flips < MaxFlips
    /\ \E k \in Drawable(alphabet) :
          LET w == Append(Tail(window), alphabet[k].key.s)
              won == Winner(Join(w), A, B)
          IN  /\ window' = w
              /\ n_flips' = n_flips + 1
              /\ n_wins' = IF won = 0 THEN n_wins
                           ELSE [n_wins EXCEPT ![won] = @ + 1]
              /\ i' = IF won = 0 THEN i ELSE i + 1
              /\ pc' = IF won = 0 THEN "while" ELSE "for"
    /\ UNCHANGED <<inputVars, pureVars, N, enumVars>>

\* lines 176-178: winrates and av_n_flips; dividing by N = 0 raises
SimReturn ==
    /\ pc = "for"
    /\ i >= N
    /\ IF N = 0
       THEN /\ result' = Raise("ZeroDivisionError")
            /\ pc' = "error"
       ELSE /\ result' = Ok(<<<<RNorm(n_wins[1], N), RNorm(n_wins[2], N)>>,
                              RNorm(n_flips, N)>>)
            /\ pc' = "done"
    /\ UNCHANGED <<inputVars, op, N, i, window, n_wins, n_flips, enumVars>>

SimNext ==
    \/ SimCall
    \/ SimBeginTrial
    \/ SimDrawRaises
    \/ SimDraw
    \/ SimReturn

SimSpec == SimInit /\ [][SimNext]_vars

---------------------------------------------------------------------------
(* all_patterns.  A frame of the recursion is [j, idx]: the argument j and *)
(* the position of the for loop in alphabet.keys().                        *)

Placeholder == StrKey(<<"-">>)

\* list_pattern[j] = key, counting from the front
SetFromFront(lst, j, key) == [lst EXCEPT ![j] = key]

\* list_pattern[-j] = key
SetFromEnd(lst, j, key) == [lst EXCEPT ![Len(lst) - j + 1] = key]

\* ''.join(list_pattern)
JoinKeys(lst) == Join([k \in 1..Len(lst) |-> lst[k].s])

\* dictionaries whose keys are str: symbols in either order, one or three
\* symbols, and a two-character key beside its own first character
EnumAlphabets ==
    {Dict(keys, [k \in 1..Len(keys) |-> 1]) :
        keys \in {<<H>>, <<H, T>>, <<T, H>>, <<H, T, StrKey(<<"c">>)>>,
                  <<H, StrKey(<<"H", "H">>)>>}}

EnumInit ==
    /\ A = <<>>
    /\ B = <<>>
    /\ alphabet \in EnumAlphabets
    /\ op = "none"
    /\ result = Ok(RInt(0))
    /\ Idle

Top == stack[Len(stack)]
Pop == SubSeq(stack, 1, Len(stack) - 1)

\* the caller's reset, lines 184-186: list_pattern = ['-']*k, patterns = []
EnumReset ==
    /\ stack = <<>>
    /\ \E k \in 1..MaxEnumLen :
          list_pattern' = [m \in 1..k |-> Placeholder]
    /\ patterns' = <<>>
    /\ call' = [NoCall EXCEPT !.defined = TRUE]
    /\ UNCHANGED <<inputVars, pureVars, simVars, stack>>

\* the caller's call all_patterns(k, alphabet), once the two lists exist
\* (before that the call raises NameError and changes nothing)
EnumCall ==
    /\ stack = <<>>
    /\ call.defined
    /\ call.calls < MaxCalls
    /\ \E k \in 1..MaxEnumLen :
          /\ stack' = <<[j |-> k, idx |-> 1]>>
          /\ call' = [call EXCEPT !.length = k,
                                  !.fresh = (patterns = <<>>
                                             /\ Len(list_pattern) = k),
                                  !.status = "running",
                                  !.calls = @ + 1]
    /\ UNCHANGED <<inputVars, pureVars, simVars, list_pattern, patterns>>

\* lines 193-196: one turn of the loop of a frame with j = 1
EnumLeaf ==
    /\ stack # <<>>
    /\ Top.j = 1
    /\ Top.idx <= Len(alphabet)
    /\ Len(list_pattern) >= 1
    /\ LET lst == SetFromEnd(list_pattern, 1, alphabet[Top.idx].key)
       IN  /\ list_pattern' = lst
           /\ patterns' = Append(patterns, JoinKeys(lst))
    /\ stack' = [stack EXCEPT ![Len(stack)].idx = @ + 1]
    /\ UNCHANGED <<inputVars, pureVars, simVars, call>>

\* lines 198-200: one turn of the loop of a frame with j # 1, up to the
\* recursive call
EnumRecurse ==
    /\ stack # <<>>
    /\ Top.j # 1
    /\ Top.idx <= Len(alphabet)
    /\ Len(list_pattern) >= Top.j
    /\ list_pattern' = SetFromEnd(list_pattern, Top.j, alphabet[Top.idx].key)
    /\ stack' = Append([stack EXCEPT ![Len(stack)].idx = @ + 1],
                       [j |-> Top.j - 1, idx |-> 1])
    /\ UNCHANGED <<inputVars, pureVars, simVars, patterns, call>>

\* list_pattern[-j] with fewer than j entries: IndexError ends the call
EnumIndexError ==
    /\ stack # <<>>
    /\ Top.idx <= Len(alphabet)
    /\ Len(list_pattern) < Top.j
    /\ stack' = <<>>
    /\ call' = [call EXCEPT !.status = "raised"]
    /\ UNCHANGED <<inputVars, pureVars, simVars, list_pattern, patterns>>

\* the loop of the top frame is over: the frame returns
EnumFrameReturn ==
    /\ stack # <<>>
    /\ Top.idx > Len(alphabet)
    /\ stack' = Pop
    /\ call' = IF Len(stack) = 1 THEN [call EXCEPT !.status = "returned"]
               ELSE call
    /\ UNCHANGED <<inputVars, pureVars, simVars, list_pattern, patterns>>

EnumNext ==
    \/ EnumReset
    \/ EnumCall
    \/ EnumLeaf
    \/ EnumRecurse
    \/ EnumIndexError
    \/ EnumFrameReturn

EnumSpec == EnumInit /\ [][EnumNext]_vars

---------------------------------------------------------------------------
(* Properties of the simulator.                                            *)

\* an input the validation of the closed-form functions refuses: the
\* probabilities do not sum to 1, a key is not a single-character symbol,
\* or a character of a pattern is not in the alphabet
SimInputInvalid ==
    \/ OffOneBeyondTolerance(SumValues(alphabet))
    \/ \E k \in 1..Len(alphabet) : ~IsSymbol(alphabet[k].key)
    \/ ~Over(A, alphabet)
    \/ ~Over(B, alphabet)

\* C7: on an invalid input simulate fails before the first trial: no draw
\* is consumed and no result is returned
C7_SimulateValidatesFirst ==
    (op = "simulate" /\ SimInputInvalid /\ Len(A) > 0 /\ Len(B) > 0
        /\ \A k \in 1..Len(alphabet) : alphabet[k].p[1] > 0)
    => /\ n_flips = 0
       /\ pc # "done"

\* the number of leading sentinel characters of a pattern
RECURSIVE SentinelPrefix(_)
SentinelPrefix(pattern) ==
    IF pattern = <<>> \/ Head(pattern) # Sentinel THEN 0
    ELSE 1 + SentinelPrefix(Tail(pattern))

\* the fewest draws after which a trial can end with the pattern matched
FewestDraws(pattern) == Max(1, Len(pattern) - SentinelPrefix(pattern))

\* C8 as stated: over a valid alphabet and non-empty patterns over it, with
\* trials >= 1, total draws >= trials * max(len(A), len(B))
C8_MeanAtLeastMax ==
    (pc = "done" /\ N >= 1 /\ ValidAlphabet(alphabet) /\ Generic(A, B)
        /\ Len(A) > 0 /\ Len(B) > 0 /\ Over(A, alphabet) /\ Over(B, alphabet))
    => n_flips >= N * Max(Len(A), Len(B))

\* C8 as amended: with trials >= 1 the returned mean is total draws over
\* trials, and total draws >= trials * the fewest draws that can match one
\* of the patterns, which is min(len(A), len(B)) when the patterns are not
\* empty and do not begin with the sentinel
C8_MeanAtLeastMin ==
    (pc = "done" /\ N >= 1)
    => /\ result.ok
       /\ result.val[2] = RNorm(n_flips, N)
       /\ n_flips >= N * Min(FewestDraws(A), FewestDraws(B))
       /\ (Len(A) > 0 /\ Len(B) > 0 /\ A[1] # Sentinel /\ B[1] # Sentinel)
          => n_flips >= N * Min(Len(A), Len(B))

C8_Witness ==
    /\ pc = "done" /\ N = MaxTrials /\ ValidAlphabet(alphabet)
    /\ Len(A) = 1 /\ Len(B) = SimMaxLen
    /\ Over(A, alphabet) /\ Over(B, alphabet)
    /\ A[1] # Sentinel /\ B[1] # Sentinel
    /\ n_flips = N
    /\ n_flips < N * Max(Len(A), Len(B))

\* the last n characters of s, for n <= Len(s)
Trailing(s, n) == SubSeq(s, Len(s) - n + 1, Len(s))

\* after a draw, the trailing len(A) symbols of the window are A and the
\* trailing len(B) symbols are B
BothMatch(w) ==
    /\ Len(Join(w)) >= Max(Len(A), Len(B))
    /\ Trailing(Join(w), Len(A)) = A
    /\ Trailing(Join(w), Len(B)) = B

IsSuffix(x, y) == Len(x) <= Len(y) /\ Trailing(y, Len(x)) = x

SymbolKeys == \A k \in 1..Len(alphabet) : IsSymbol(alphabet[k].key)

\* C10 as stated: a draw after which both comparisons would succeed occurs
\* only when A and B have equal length, and the win is recorded for A
C10_BothMatchOnlyEqualLength ==
    [][(ValidAlphabet(alphabet) /\ Len(A) > 0 /\ Len(B) > 0
           /\ Over(A, alphabet) /\ Over(B, alphabet)
           /\ ~InKeys(alphabet, Sentinel)
           /\ n_flips' = n_flips + 1 /\ BothMatch(window'))
        => /\ Len(A) = Len(B)
           /\ n_wins' = <<n_wins[1] + 1, n_wins[2]>>]_vars

\* C10 as amended: A is tested first and B only if A did not match; a draw
\* after which both comparisons would succeed occurs only when one pattern
\* is a suffix of the other (for equal lengths, only when A = B), and the
\* win is recorded for A
C10_BothMatchWinForA ==
    [][(SymbolKeys /\ n_flips' = n_flips + 1)
        => /\ BothMatch(window')
              => /\ IsSuffix(A, B) \/ IsSuffix(B, A)
                 /\ Len(A) = Len(B) => A = B
                 /\ n_wins' = <<n_wins[1] + 1, n_wins[2]>>
           /\ n_wins'[2] = n_wins[2] + 1
              => Trailing(Join(window'), Len(A)) # A]_vars

C10_Witness ==
    /\ SymbolKeys /\ ValidAlphabet(alphabet)
    /\ Over(A, alphabet) /\ Over(B, alphabet) /\ ~InKeys(alphabet, Sentinel)
    /\ pc = "for" /\ i = 1 /\ n_flips = SimMaxLen
    /\ BothMatch(window)
    /\ Len(A) < Len(B)
    /\ n_wins = <<1, 0>>

---------------------------------------------------------------------------
(* Properties of the enumerator.                                           *)

RECURSIVE Power(_, _)
Power(x, n) == IF n = 0 THEN 1 ELSE x * Power(x, n - 1)

\* the m-th string (from 0) of `length` nested iterations over the keys,
\* the first position varying slowest
NthPattern(m, length, alph) ==
    Join([pos \in 1..length |->
            alph[((m \div Power(Len(alph), length - pos)) % Len(alph)) + 1].key.s])

KeyChars(alph) == {alph[k].key.s[1] : k \in 1..Len(alph)}

\* C9: after a reset (list_pattern of `length` entries, patterns empty), a
\* call with length >= 1 over single-character keys leaves in patterns
\* exactly |alphabet|^length strings of `length` symbols of the alphabet,
\* pairwise distinct, every such string among them, in the order of nested
\* iteration with the first position varying slowest
C9_EnumeratesAllPatterns ==
    (call.status = "returned" /\ call.fresh /\ call.length >= 1 /\ SymbolKeys)
    => LET n == Power(Len(alphabet), call.length)
       IN  /\ Len(patterns) = n
           /\ \A m \in 1..Len(patterns) :
                 /\ Len(patterns[m]) = call.length
                 /\ \A c \in 1..Len(patterns[m]) :
                       patterns[m][c] \in KeyChars(alphabet)
           /\ \A m1, m2 \in 1..Len(patterns) :
                 m1 # m2 => patterns[m1] # patterns[m2]
           /\ {patterns[m] : m \in 1..Len(patterns)}
                 = [1..call.length -> KeyChars(alphabet)]
           /\ \A m \in 1..Len(patterns) :
                 patterns[m] = NthPattern(m - 1, call.length, alphabet)

C9_Witness ==
    /\ call.status = "returned" /\ call.fresh /\ SymbolKeys
    /\ call.length = MaxEnumLen
    /\ Len(alphabet) = 2
    /\ alphabet[1].key = T
    /\ Len(patterns) = Power(2, MaxEnumLen)
    /\ patterns[2] = [k \in 1..MaxEnumLen |-> IF k = MaxEnumLen THEN "H" ELSE "T"]

====
